---- MODULE Spec2Model ----
(***************************************************************************)
(* Byte pair encoding of subword-embedding.ipynb: the symbol vocabulary,   *)
(* the word frequency table, get_max_freq_pair, merge_symbols, the         *)
(* training loop and segment_BPE.                                          *)
(*                                                                         *)
(* A Python string is modelled as the sequence of its characters, each     *)
(* character a one-character TLA+ string; a dict is modelled as the        *)
(* sequence of its <<key, value>> items in insertion order.                *)
(*                                                                         *)
(* Also autograd.ipynb (the function f with its data-dependent control     *)
(* flow, and the gradient buffer x.grad) and the tied parameters cell of   *)
(* part_001; tensors are modelled over the integers.                       *)
(***************************************************************************)
EXTENDS Integers, Sequences, FiniteSets, TLC

VARIABLES
    raw_token_freqs,  \* dict word -> frequency given by the caller
    token_freqs,      \* dict key (space-delimited symbols) -> frequency
    symbols,          \* the vocabulary list
    i,                \* number of iterations of the training loop done
    merges,           \* the pairs printed by the training loop, in order
    tokens,           \* argument of segment_BPE
    outputs,          \* result list of segment_BPE
    tok,              \* index (1-based) of the token being scanned
    start,            \* scan position in the current token (0-based)
    end,              \* candidate end position in the current token
    cur_output,       \* symbols emitted for the current token
    tests,            \* substring tests done on the current token
    run,              \* 1 for the first training run, 2 for a repeated one
    first,            \* what the first training run ended with
    pc,               \* position of the notebook / of the call in progress
    a,                \* autograd.ipynb: the argument of f
    b,                \* the local b of f (0 before it is bound)
    c,                \* the local c of f, returned to d (0 before it is bound)
    graph,            \* the factors recorded on the way from a to the result
    a_grad,           \* a.grad (0 before backward)
    x_grad,           \* x.grad, << >> while it is None
    y,                \* the function of x recorded last and not yet backpropagated
    passes,           \* the gradients of the backward passes since the last
                      \* x.grad.zero_(), or since x was created
    before,           \* what came just before the latest backward pass
    weight,           \* layer object -> its weight.data[0, 0]
    weight_grad,      \* layer object -> its weight.grad[0, 0], 0 while None
    contribs,         \* per backward pass of net, site -> gradient contribution
    called,           \* the function of the notebook called on its own, "" before
    arg_pair,         \* the pair given to merge_symbols, << >> if none
    got_pair,         \* the pair returned by get_max_freq_pair, << >> if none
    raised,           \* whether the call ended with an exception
    new_table         \* the table returned by merge_symbols, << >> if none

vars == <<raw_token_freqs, token_freqs, symbols, i, merges, tokens, outputs,
          tok, start, end, cur_output, tests, run, first, pc,
          a, b, c, graph, a_grad, x_grad, y, passes, before,
          weight, weight_grad, contribs,
          called, arg_pair, got_pair, raised, new_table>>

trainVars == <<raw_token_freqs, token_freqs, symbols, i, merges>>
scanVars == <<tokens, outputs, tok, start, end, cur_output, tests>>
callVars == <<called, arg_pair, got_pair, raised, new_table>>
bpeVars == <<trainVars, scanVars, run, first, callVars>>
fVars == <<a, b, c, graph, a_grad>>
xVars == <<x_grad, y, passes, before>>
netVars == <<weight, weight_grad, contribs>>
gradVars == <<fVars, xVars, netVars>>

\* the variables of a part of the notebooks while another part runs
CallIdle ==
    /\ called = ""
    /\ arg_pair = << >>
    /\ got_pair = << >>
    /\ raised = FALSE
    /\ new_table = << >>
BpeIdle ==
    /\ CallIdle
    /\ raw_token_freqs = << >>
    /\ token_freqs = << >>
    /\ symbols = << >>
    /\ i = 0
    /\ merges = << >>
    /\ tokens = << >>
    /\ outputs = << >>
    /\ tok = 0
    /\ start = 0
    /\ end = 0
    /\ cur_output = << >>
    /\ tests = 0
    /\ run = 1
    /\ first = [num_merges |-> 0, i |-> 0, merges |-> << >>, symbols |-> << >>,
                token_freqs |-> << >>, pc |-> "none"]
FIdle ==
    /\ a = 0
    /\ b = 0
    /\ c = 0
    /\ graph = << >>
    /\ a_grad = 0
XIdle ==
    /\ x_grad = << >>
    /\ y = "none"
    /\ passes = << >>
    /\ before = "creation"
NetIdle ==
    /\ weight = << >>
    /\ weight_grad = << >>
    /\ contribs = << >>
GradIdle == FIdle /\ XIdle /\ NetIdle

----------------------------------------------------------------------------
(* Bounds of the model *)

MaxWordLen == 3
MaxWords == 3
MaxChars == 5
MaxFreq == 2
MaxMerges == 12
MaxTokens == 2
MaxTokenChars == 4
MaxExtra == 2
MaxInput == 5
MaxGraph == 12
MaxPasses == 3
MaxBackward == 2

(* Program constants *)

SP == " "
UNK == <<"[", "U", "N", "K", "]">>

BaseSymbols ==
    << <<"a">>, <<"b">>, <<"c">>, <<"d">>, <<"e">>, <<"f">>, <<"g">>,
       <<"h">>, <<"i">>, <<"j">>, <<"k">>, <<"l">>, <<"m">>, <<"n">>,
       <<"o">>, <<"p">>, <<"q">>, <<"r">>, <<"s">>, <<"t">>, <<"u">>,
       <<"v">>, <<"w">>, <<"x">>, <<"y">>, <<"z">>, <<"_">>, UNK >>

ExampleCorpus ==
    << << <<"f","a","s","t","_">>, 4 >>,
       << <<"f","a","s","t","e","r","_">>, 3 >>,
       << <<"t","a","l","l","_">>, 5 >>,
       << <<"t","a","l","l","e","r","_">>, 4 >> >>

ExampleTokens ==
    << <<"t","a","l","l","e","s","t","_">>,
       <<"f","a","t","t","e","r","_">> >>

ExampleMerges == 10

\* autograd.ipynb: while b.norm() < 1000, c = 100 * b
NormLimit == 1000
ElseScale == 100

----------------------------------------------------------------------------
(* Python built-ins used by the notebook *)

Range(s) == {s[k] : k \in DOMAIN s}

\* s[lo:hi] with 0 <= lo <= hi <= len(s)
Slice(s, lo, hi) == SubSeq(s, lo + 1, hi)

\* list(token): the list of the one-character strings of token
list(token) == [k \in 1..Len(token) |-> <<token[k]>>]

\* sep.join(parts)
RECURSIVE join(_, _)
join(sep, parts) ==
    IF Len(parts) = 0 THEN << >>
    ELSE IF Len(parts) = 1 THEN parts[1]
    ELSE parts[1] \o sep \o join(sep, Tail(parts))

\* s.split(): the maximal runs of non-whitespace characters of s
RECURSIVE SplitFrom(_, _, _)
SplitFrom(s, k, cur) ==
    IF k > Len(s) THEN (IF cur = << >> THEN << >> ELSE <<cur>>)
    ELSE IF s[k] = SP
         THEN (IF cur = << >> THEN << >> ELSE <<cur>>) \o SplitFrom(s, k + 1, << >>)
         ELSE SplitFrom(s, k + 1, Append(cur, s[k]))

split(s) == SplitFrom(s, 1, << >>)

StartsAt(s, k, old) ==
    /\ k + Len(old) - 1 <= Len(s)
    /\ SubSeq(s, k, k + Len(old) - 1) = old

\* s.replace(old, new) for a non-empty old: the leftmost non-overlapping
\* occurrences of the substring old, found by a scan over the characters
RECURSIVE ReplaceFrom(_, _, _, _)
ReplaceFrom(s, k, old, new) ==
    IF k > Len(s) THEN << >>
    ELSE IF StartsAt(s, k, old)
         THEN new \o ReplaceFrom(s, k + Len(old), old, new)
         ELSE <<s[k]>> \o ReplaceFrom(s, k + 1, old, new)

replace(s, old, new) == ReplaceFrom(s, 1, old, new)

\* dict operations, a dict being the sequence of its items
Keys(d) == [k \in 1..Len(d) |-> d[k][1]]
Values(d) == [k \in 1..Len(d) |-> d[k][2]]
HasKey(d, key) == \E k \in 1..Len(d) : d[k][1] = key
Get(d, key) == d[CHOOSE k \in 1..Len(d) : d[k][1] = key][2]

\* mutant: an assigned key goes last, present or not
DictSetMoveToEnd(d, key, val) ==
    Append(SelectSeq(d, LAMBDA item : item[1] # key), <<key, val>>)

\* d[key] = val: a present key keeps its place, a new key goes last
DictSet(d, key, val) ==
    IF HasKey(d, key)
    THEN [k \in 1..Len(d) |-> IF d[k][1] = key THEN <<key, val>> ELSE d[k]]
    ELSE Append(d, <<key, val>>)

RECURSIVE SumSeq(_)
SumSeq(s) == IF Len(s) = 0 THEN 0 ELSE s[1] + SumSeq(Tail(s))

----------------------------------------------------------------------------
(* get_max_freq_pair *)

\* mutant: pairs[key] = freq
PairsAssign(pairs, key, freq) == DictSet(pairs, key, freq)

\* pairs[key] += freq on a defaultdict(int)
PairsAdd(pairs, key, freq) ==
    DictSet(pairs, key, (IF HasKey(pairs, key) THEN Get(pairs, key) ELSE 0) + freq)

\* mutant: a pair is counted once for a key, however often it occurs in it
RECURSIVE ScanSymbolsOnce(_, _, _, _)
ScanSymbolsOnce(pairs, syms, k, freq) ==
    IF k >= Len(syms) THEN pairs
    ELSE ScanSymbolsOnce(
             IF \E j \in 1..(k - 1) : syms[j] = syms[k] /\ syms[j + 1] = syms[k + 1]
             THEN pairs
             ELSE PairsAdd(pairs, <<syms[k], syms[k + 1]>>, freq),
             syms, k + 1, freq)

\* mutant: for i in range(len(symbols) - 2)
RECURSIVE ScanSymbolsShort(_, _, _, _)
ScanSymbolsShort(pairs, syms, k, freq) ==
    IF k >= Len(syms) - 1 THEN pairs
    ELSE ScanSymbolsShort(PairsAdd(pairs, <<syms[k], syms[k + 1]>>, freq), syms, k + 1, freq)

\* for i in range(len(symbols) - 1): pairs[symbols[i], symbols[i + 1]] += freq
RECURSIVE ScanSymbols(_, _, _, _)
ScanSymbols(pairs, syms, k, freq) ==
    IF k >= Len(syms) THEN pairs
    ELSE ScanSymbols(PairsAdd(pairs, <<syms[k], syms[k + 1]>>, freq), syms, k + 1, freq)

\* mutant: the keys are scanned as one text, not one by one
ScanTableAsOneText(pairs, tf, t) ==
    IF t > Len(tf) THEN pairs
    ELSE ScanSymbols(pairs, split(join(<<SP>>, Keys(tf))), 1, tf[t][2])

\* for token, freq in token_freqs.items(): ...
RECURSIVE ScanTable(_, _, _)
ScanTable(pairs, tf, t) ==
    IF t > Len(tf) THEN pairs
    ELSE ScanTable(ScanSymbols(pairs, split(tf[t][1]), 1, tf[t][2]), tf, t + 1)

PairCounts(tf) == ScanTable(<< >>, tf, 1)

\* mutant: a later key with an equal value replaces the maximum found so far
RECURSIVE MaxFromKeepLater(_, _, _)
MaxFromKeepLater(pairs, k, best) ==
    IF k > Len(pairs) THEN pairs[best][1]
    ELSE MaxFromKeepLater(pairs, k + 1, IF pairs[k][2] >= pairs[best][2] THEN k ELSE best)

\* max(pairs, key=pairs.get): the first key, in insertion order, whose value
\* no other value exceeds; best is the index of the maximum found so far
RECURSIVE MaxFrom(_, _, _)
MaxFrom(pairs, k, best) ==
    IF k > Len(pairs) THEN pairs[best][1]
    ELSE MaxFrom(pairs, k + 1, IF pairs[k][2] > pairs[best][2] THEN k ELSE best)

\* mutant: on a tie the last key with the maximum value
MaxByValueLast(pairs) ==
    pairs[CHOOSE k \in 1..Len(pairs) :
              /\ \A j \in 1..Len(pairs) : pairs[j][2] <= pairs[k][2]
              /\ \A j \in (k + 1)..Len(pairs) : pairs[j][2] < pairs[k][2]][1]

\* mutant: the iteration order of the pairs changes from one run to the next
MaxByValueHashOrder(pairs) ==
    IF run = 1 THEN MaxFrom(pairs, 2, 1) ELSE MaxByValueLast(pairs)

MaxByValue(pairs) == MaxFrom(pairs, 2, 1)

\* max() of an empty dict raises ValueError
RaisesValueError(tf) == PairCounts(tf) = << >>

get_max_freq_pair(tf) == MaxByValue(PairCounts(tf))

----------------------------------------------------------------------------
(* merge_symbols *)

\* ''.join(max_freq_pair)
Merged(max_freq_pair) == join(<< >>, max_freq_pair)

\* mutant: token.replace(' '.join(max_freq_pair), max_freq_pair[0])
NewTokenFirstOfPair(token, max_freq_pair) ==
    replace(token, join(<<SP>>, max_freq_pair), max_freq_pair[1])

\* mutant: token.replace(' '.join(max_freq_pair), ' '.join(max_freq_pair))
NewTokenUnmerged(token, max_freq_pair) ==
    replace(token, join(<<SP>>, max_freq_pair), join(<<SP>>, max_freq_pair))

\* token.replace(' '.join(max_freq_pair), ''.join(max_freq_pair))
NewToken(token, max_freq_pair) ==
    replace(token, join(<<SP>>, max_freq_pair), Merged(max_freq_pair))

\* mutant: a key the merge leaves as it is is not copied to the new table
RECURSIVE MergeFromChanged(_, _, _, _)
MergeFromChanged(new_token_freqs, max_freq_pair, tf, t) ==
    IF t > Len(tf) THEN new_token_freqs
    ELSE MergeFromChanged(IF NewToken(tf[t][1], max_freq_pair) = tf[t][1]
                          THEN new_token_freqs
                          ELSE DictSet(new_token_freqs,
                                       NewToken(tf[t][1], max_freq_pair),
                                       Get(tf, tf[t][1])),
                          max_freq_pair, tf, t + 1)

\* for token, freq in token_freqs.items():
\*     new_token_freqs[new_token] = token_freqs[token]
RECURSIVE MergeFrom(_, _, _, _)
MergeFrom(new_token_freqs, max_freq_pair, tf, t) ==
    IF t > Len(tf) THEN new_token_freqs
    ELSE MergeFrom(DictSet(new_token_freqs,
                           NewToken(tf[t][1], max_freq_pair),
                           Get(tf, tf[t][1])),
                   max_freq_pair, tf, t + 1)

\* the table merge_symbols returns
merge_symbols(max_freq_pair, tf) == MergeFrom(<< >>, max_freq_pair, tf, 1)

\* mutant: symbols.append(max_freq_pair[0])
AppendFirstOfPair(syms, max_freq_pair) == Append(syms, max_freq_pair[1])

\* symbols.append(''.join(max_freq_pair))
AppendSymbol(syms, max_freq_pair) == Append(syms, Merged(max_freq_pair))

----------------------------------------------------------------------------
(* segment_BPE *)

InList(x, lst) == \E k \in 1..Len(lst) : lst[k] = x

\* mutant: while start < len(token) and start < end - 1
ScanCondStrict(token, s, e) == s < Len(token) /\ s + 1 < e

\* while start < len(token) and start < end
ScanCond(token, s, e) == s < Len(token) /\ s < e

\* mutant: end is not set back to len(token) after a match
ScanBodyNoReset(token, syms, st) ==
    IF InList(Slice(token, st.start, st.end), syms)
    THEN [start |-> st.end, end |-> st.end,
          cur_output |-> Append(st.cur_output, Slice(token, st.start, st.end))]
    ELSE [start |-> st.start, end |-> st.end - 1, cur_output |-> st.cur_output]

\* mutant: end is not lowered when the test fails
ScanBodyNoStep(token, syms, st) ==
    IF InList(Slice(token, st.start, st.end), syms)
    THEN [start |-> st.end, end |-> Len(token),
          cur_output |-> Append(st.cur_output, Slice(token, st.start, st.end))]
    ELSE [start |-> st.start, end |-> st.end, cur_output |-> st.cur_output]

\* one iteration of the while loop on the scan state st
ScanBody(token, syms, st) ==
    IF InList(Slice(token, st.start, st.end), syms)
    THEN [start |-> st.end, end |-> Len(token),
          cur_output |-> Append(st.cur_output, Slice(token, st.start, st.end))]
    ELSE [start |-> st.start, end |-> st.end - 1, cur_output |-> st.cur_output]

RECURSIVE ScanLoop(_, _, _)
ScanLoop(token, syms, st) ==
    IF ScanCond(token, st.start, st.end)
    THEN ScanLoop(token, syms, ScanBody(token, syms, st))
    ELSE st

\* mutant: outputs.append(''.join(cur_output))
FinishNoDelimiter(token, st) ==
    join(<< >>, IF st.start < Len(token) THEN Append(st.cur_output, UNK)
                ELSE st.cur_output)

\* if start < len(token): cur_output.append('[UNK]')
\* outputs.append(' '.join(cur_output))
Finish(token, st) ==
    join(<<SP>>, IF st.start < Len(token) THEN Append(st.cur_output, UNK)
                 ELSE st.cur_output)

\* mutant: end starts at len(token) - 1
ScanInitShort(token) ==
    [start |-> 0, end |-> IF Len(token) = 0 THEN 0 ELSE Len(token) - 1, cur_output |-> << >>]

ScanInit(token) == [start |-> 0, end |-> Len(token), cur_output |-> << >>]

SegmentToken(token, syms) == Finish(token, ScanLoop(token, syms, ScanInit(token)))

segment_BPE(toks, syms) == [k \in 1..Len(toks) |-> SegmentToken(toks[k], syms)]

----------------------------------------------------------------------------
(* Inputs of the model *)

Alphabet == <<"a", "b">>

Words == UNION {[1..n -> Range(Alphabet)] : n \in 1..MaxWordLen}

CharIndex(ch, alphabet) == CHOOSE k \in 1..Len(alphabet) : alphabet[k] = ch

\* position of a word in the enumeration of the words over alphabet, shorter
\* words first
RECURSIVE Code(_, _)
Code(w, alphabet) ==
    IF Len(w) = 0 THEN 0
    ELSE Code(SubSeq(w, 1, Len(w) - 1), alphabet) * (Len(alphabet) + 1)
         + CharIndex(w[Len(w)], alphabet)

\* the lists of at most n distinct strings of S, in enumeration order
RECURSIVE SortedLists(_, _, _)
SortedLists(S, n, alphabet) ==
    IF n = 0 THEN {<< >>}
    ELSE LET shorter == SortedLists(S, n - 1, alphabet)
         IN shorter \cup
            {Append(q[1], q[2]) :
                q \in {r \in shorter \X S :
                          /\ Len(r[1]) = n - 1
                          /\ n = 1 \/ Code(r[1][n - 1], alphabet) < Code(r[2], alphabet)}}

\* the dicts of at most MaxWords distinct words of at most MaxChars characters
\* in all, the words in enumeration order, each with a frequency in 1..MaxFreq
WordLists ==
    {ws \in SortedLists(Words, MaxWords, Alphabet) :
        SumSeq([k \in 1..Len(ws) |-> Len(ws[k])]) <= MaxChars}

EnumeratedCorpora ==
    UNION {{[k \in 1..Len(ws) |-> <<ws[k], fs[k]>>] : fs \in [1..Len(ws) -> 1..MaxFreq]} :
           ws \in WordLists}

\* a word that spells the unknown symbol, words with a character that is
\* not a symbol of the vocabulary, and words of which one ends another
UnkCorpus == << <<UNK, 1>> >>
DigitCorpus == << << <<"a", "1">>, 2 >>, << <<"1", "a", "1">>, 1 >> >>
\* a table in which a pair inserted first reaches the maximum value last
TieCorpus ==
    << << <<"a", "b">>, 1 >>, << <<"b", "a">>, 2 >>, << <<"a", "a", "b">>, 1 >> >>
\* words in which a symbol that a merge made across a symbol boundary gets
\* a neighbour
ChainCorpus ==
    << << <<"a", "a", "b", "a">>, 1 >>, << <<"a", "b", "a", "a">>, 2 >> >>
NestedCorpus ==
    << << <<"a", "a">>, 1 >>, << <<"a", "b">>, 1 >>, << <<"a", "a", "b">>, 1 >> >>

Corpora ==
    EnumeratedCorpora
        \cup {ExampleCorpus, UnkCorpus, DigitCorpus, NestedCorpus, TieCorpus, ChainCorpus}

----------------------------------------------------------------------------
(* The notebook as a state machine *)

NoRun == [num_merges |-> 0, i |-> 0, merges |-> << >>, symbols |-> << >>,
          token_freqs |-> << >>, pc |-> "none"]

Init ==
    /\ raw_token_freqs \in Corpora
    /\ token_freqs = << >>
    /\ symbols = BaseSymbols
    /\ i = 0
    /\ merges = << >>
    /\ tokens = << >>
    /\ outputs = << >>
    /\ tok = 0
    /\ start = 0
    /\ end = 0
    /\ cur_output = << >>
    /\ tests = 0
    /\ run = 1
    /\ first = NoRun
    /\ pc = "start"
    /\ GradIdle
    /\ CallIdle

\* mutant: token_freqs[' '.join(list(token))] = 1
RECURSIVE BuildFromOnes(_, _, _)
BuildFromOnes(tf, raw, t) ==
    IF t > Len(raw) THEN tf
    ELSE BuildFromOnes(DictSet(tf, join(<<SP>>, list(raw[t][1])), 1), raw, t + 1)

\* token_freqs = {}
\* for token, freq in raw_token_freqs.items():
\*     token_freqs[' '.join(list(token))] = raw_token_freqs[token]
RECURSIVE BuildFrom(_, _, _)
BuildFrom(tf, raw, t) ==
    IF t > Len(raw) THEN tf
    ELSE BuildFrom(DictSet(tf, join(<<SP>>, list(raw[t][1])), Get(raw, raw[t][1])),
                   raw, t + 1)

InitialTable(raw) == BuildFrom(<< >>, raw, 1)

BuildTable ==
    /\ pc = "start"
    /\ token_freqs' = InitialTable(raw_token_freqs)
    /\ pc' = "train"
    /\ UNCHANGED <<raw_token_freqs, symbols, i, merges, run, first>>
    /\ UNCHANGED scanVars
    /\ UNCHANGED gradVars
    /\ UNCHANGED callVars

\* the loop has an iteration left: num_merges is any number up to MaxMerges
\* in the first run and the number of the first run in a repeated run
IterationLeft == IF run = 1 THEN i < MaxMerges ELSE i < first.num_merges
RangeExhausted == IF run = 1 THEN TRUE ELSE i = first.num_merges

\* one iteration of: for i in range(num_merges)
TrainStep ==
    /\ pc = "train"
    /\ IterationLeft
    /\ ~RaisesValueError(token_freqs)
    /\ LET max_freq_pair == get_max_freq_pair(token_freqs) IN
          /\ token_freqs' = merge_symbols(max_freq_pair, token_freqs)
          /\ symbols' = AppendSymbol(symbols, max_freq_pair)
          /\ merges' = Append(merges, max_freq_pair)
    /\ i' = i + 1
    /\ UNCHANGED <<raw_token_freqs, run, first, pc>>
    /\ UNCHANGED scanVars
    /\ UNCHANGED gradVars
    /\ UNCHANGED callVars

\* get_max_freq_pair raises ValueError and nothing catches it
TrainCrash ==
    /\ pc = "train"
    /\ IterationLeft
    /\ RaisesValueError(token_freqs)
    /\ pc' = "crashed"
    /\ UNCHANGED <<raw_token_freqs, token_freqs, symbols, i, merges, run, first>>
    /\ UNCHANGED scanVars
    /\ UNCHANGED gradVars
    /\ UNCHANGED callVars

\* range(num_merges) is exhausted
TrainEnd ==
    /\ pc = "train"
    /\ RangeExhausted
    /\ pc' = "trained"
    /\ UNCHANGED <<raw_token_freqs, token_freqs, symbols, i, merges, run, first>>
    /\ UNCHANGED scanVars
    /\ UNCHANGED gradVars
    /\ UNCHANGED callVars

\* print(segment_BPE(tokens, symbols)) on the training words or, after the
\* training on the table of the notebook, on the tokens of the notebook
Segment ==
    /\ pc = "trained"
    /\ \E toks \in {Keys(raw_token_freqs)}
                     \cup (IF raw_token_freqs = ExampleCorpus THEN {ExampleTokens} ELSE {}) :
          /\ tokens' = toks
          /\ outputs' = segment_BPE(toks, symbols)
    /\ pc' = "segmented"
    /\ UNCHANGED <<raw_token_freqs, token_freqs, symbols, i, merges, run, first>>
    /\ UNCHANGED <<tok, start, end, cur_output, tests>>
    /\ UNCHANGED gradVars
    /\ UNCHANGED callVars

Next == BuildTable \/ TrainStep \/ TrainCrash \/ TrainEnd \/ Segment

Spec == Init /\ [][Next]_vars

\* the training cell is run again from the same raw_token_freqs with the same
\* num_merges, after the cells that define symbols and token_freqs
Restart ==
    /\ pc \in {"trained", "crashed"}
    /\ run = 1
    /\ first' = [num_merges |-> IF pc = "crashed" THEN i + 1 ELSE i,
                 i |-> i, merges |-> merges, symbols |-> symbols,
                 token_freqs |-> token_freqs, pc |-> pc]
    /\ run' = 2
    /\ token_freqs' = << >>
    /\ symbols' = BaseSymbols
    /\ i' = 0
    /\ merges' = << >>
    /\ pc' = "start"
    /\ UNCHANGED raw_token_freqs
    /\ UNCHANGED scanVars
    /\ UNCHANGED gradVars
    /\ UNCHANGED callVars

NextRerun == BuildTable \/ TrainStep \/ TrainCrash \/ TrainEnd \/ Restart

SpecRerun == Init /\ [][NextRerun]_vars

----------------------------------------------------------------------------
(* A call of segment_BPE, one iteration of its loops at a time *)

TokenAlphabet == <<"a", "1">>

Strings(lo, hi) == UNION {[1..n -> Range(TokenAlphabet)] : n \in lo..hi}

\* the lists of at most MaxTokens tokens of at most MaxTokenChars characters
\* in all
TokenLists ==
    UNION {{ts \in [1..n -> Strings(0, MaxTokenChars)] :
               SumSeq([k \in 1..n |-> Len(ts[k])]) <= MaxTokenChars} : n \in 0..MaxTokens}

\* the substrings of 2 or more characters of the tokens
Substrings(ts) ==
    UNION {{SubSeq(ts[k], lo, hi) : lo \in 1..Len(ts[k]), hi \in 2..Len(ts[k])} :
           k \in 1..Len(ts)} \ Strings(0, 1)

\* the initial vocabulary followed by at most MaxExtra distinct symbols of 2
\* or more characters; a symbol that occurs in no token is never matched, so
\* the symbols are taken among the substrings of the tokens
Vocabularies(ts) ==
    {BaseSymbols \o extra : extra \in SortedLists(Substrings(ts), MaxExtra, TokenAlphabet)}

InitSegment ==
    /\ raw_token_freqs = << >>
    /\ token_freqs = << >>
    /\ tokens \in TokenLists
    /\ symbols \in Vocabularies(tokens)
    /\ i = 0
    /\ merges = << >>
    /\ outputs = << >>
    /\ tok = 0
    /\ start = 0
    /\ end = 0
    /\ cur_output = << >>
    /\ tests = 0
    /\ run = 1
    /\ first = NoRun
    /\ pc = "for"
    /\ GradIdle
    /\ CallIdle

ScanState == [start |-> start, end |-> end, cur_output |-> cur_output]

\* mutant: cur_output is not emptied between two tokens
NextTokenKeepOutput ==
    /\ pc = "for"
    /\ tok < Len(tokens)
    /\ tok' = tok + 1
    /\ start' = ScanInit(tokens[tok + 1]).start
    /\ end' = ScanInit(tokens[tok + 1]).end
    /\ cur_output' = cur_output
    /\ tests' = 0
    /\ pc' = "while"
    /\ UNCHANGED <<tokens, outputs, run, first>>
    /\ UNCHANGED trainVars
    /\ UNCHANGED gradVars
    /\ UNCHANGED callVars

\* for token in tokens: start, end = 0, len(token); cur_output = []
NextToken ==
    /\ pc = "for"
    /\ tok < Len(tokens)
    /\ tok' = tok + 1
    /\ start' = ScanInit(tokens[tok + 1]).start
    /\ end' = ScanInit(tokens[tok + 1]).end
    /\ cur_output' = ScanInit(tokens[tok + 1]).cur_output
    /\ tests' = 0
    /\ pc' = "while"
    /\ UNCHANGED <<tokens, outputs, run, first>>
    /\ UNCHANGED trainVars
    /\ UNCHANGED gradVars
    /\ UNCHANGED callVars

\* an iteration of the while loop whose test token[start: end] in symbols holds
ScanHit ==
    /\ pc = "while"
    /\ ScanCond(tokens[tok], start, end)
    /\ InList(Slice(tokens[tok], start, end), symbols)
    /\ start' = ScanBody(tokens[tok], symbols, ScanState).start
    /\ end' = ScanBody(tokens[tok], symbols, ScanState).end
    /\ cur_output' = ScanBody(tokens[tok], symbols, ScanState).cur_output
    /\ tests' = tests + 1
    /\ UNCHANGED <<tokens, outputs, tok, run, first, pc>>
    /\ UNCHANGED trainVars
    /\ UNCHANGED gradVars
    /\ UNCHANGED callVars

\* an iteration of the while loop whose test fails
ScanMiss ==
    /\ pc = "while"
    /\ ScanCond(tokens[tok], start, end)
    /\ ~InList(Slice(tokens[tok], start, end), symbols)
    /\ start' = ScanBody(tokens[tok], symbols, ScanState).start
    /\ end' = ScanBody(tokens[tok], symbols, ScanState).end
    /\ cur_output' = ScanBody(tokens[tok], symbols, ScanState).cur_output
    /\ tests' = tests + 1
    /\ UNCHANGED <<tokens, outputs, tok, run, first, pc>>
    /\ UNCHANGED trainVars
    /\ UNCHANGED gradVars
    /\ UNCHANGED callVars

\* mutant: one unknown symbol for every character that is left
TokenDoneEachUnknown ==
    /\ pc = "while"
    /\ ~ScanCond(tokens[tok], start, end)
    /\ cur_output' = cur_output \o [k \in 1..(Len(tokens[tok]) - start) |-> UNK]
    /\ outputs' = Append(outputs, join(<<SP>>, cur_output'))
    /\ pc' = "for"
    /\ UNCHANGED <<tokens, tok, start, end, tests, run, first>>
    /\ UNCHANGED trainVars
    /\ UNCHANGED gradVars
    /\ UNCHANGED callVars

\* the while loop is left: the unknown symbol if the token is not consumed,
\* then outputs.append(' '.join(cur_output))
TokenDone ==
    /\ pc = "while"
    /\ ~ScanCond(tokens[tok], start, end)
    /\ cur_output' = IF start < Len(tokens[tok]) THEN Append(cur_output, UNK)
                     ELSE cur_output
    /\ outputs' = Append(outputs, Finish(tokens[tok], ScanState))
    /\ pc' = "for"
    /\ UNCHANGED <<tokens, tok, start, end, tests, run, first>>
    /\ UNCHANGED trainVars
    /\ UNCHANGED gradVars
    /\ UNCHANGED callVars

\* return outputs
Return ==
    /\ pc = "for"
    /\ tok = Len(tokens)
    /\ pc' = "returned"
    /\ UNCHANGED <<run, first>>
    /\ UNCHANGED scanVars
    /\ UNCHANGED trainVars
    /\ UNCHANGED gradVars
    /\ UNCHANGED callVars

NextSegment == NextToken \/ ScanHit \/ ScanMiss \/ TokenDone \/ Return

SpecSegment == InitSegment /\ [][NextSegment]_vars

----------------------------------------------------------------------------
(* autograd.ipynb: gradients and Python control flow *)

\* the scalars given to f: a is a tensor of no dimension
Inputs == (0 - MaxInput)..MaxInput

\* b.norm() and b.sum() of a tensor of no dimension
norm(t) == IF t < 0 THEN 0 - t ELSE t
sum(t) == t

\* the recording of one more multiplication by a constant; the model keeps
\* at most MaxGraph factors, more than any input other than 0 records
Record(g, factor) == IF Len(g) < MaxGraph THEN Append(g, factor) ELSE g

\* backward through a chain of multiplications by constants: the product
RECURSIVE Product(_)
Product(g) == IF Len(g) = 0 THEN 1 ELSE g[1] * Product(Tail(g))

InitF ==
    /\ BpeIdle
    /\ XIdle
    /\ NetIdle
    /\ a \in Inputs
    /\ b = 0
    /\ c = 0
    /\ graph = << >>
    /\ a_grad = 0
    /\ pc = "f"

\* b = a * 2
FEnter ==
    /\ pc = "f"
    /\ b' = a * 2
    /\ graph' = Record(graph, 2)
    /\ pc' = "f_while"
    /\ UNCHANGED <<a, c, a_grad>>
    /\ UNCHANGED <<bpeVars, xVars, netVars>>

\* while b.norm() < 1000: the condition holds
FWhile ==
    /\ pc = "f_while"
    /\ norm(b) < NormLimit
    /\ pc' = "f_body"
    /\ UNCHANGED fVars
    /\ UNCHANGED <<bpeVars, xVars, netVars>>

\* b = b * 2, and back to the condition
FDouble ==
    /\ pc = "f_body"
    /\ b' = b * 2
    /\ graph' = Record(graph, 2)
    /\ pc' = "f_while"
    /\ UNCHANGED <<a, c, a_grad>>
    /\ UNCHANGED <<bpeVars, xVars, netVars>>

\* the while condition fails
FLoopExit ==
    /\ pc = "f_while"
    /\ ~(norm(b) < NormLimit)
    /\ pc' = "f_if"
    /\ UNCHANGED fVars
    /\ UNCHANGED <<bpeVars, xVars, netVars>>

\* if b.sum() > 0: c = b
FThen ==
    /\ pc = "f_if"
    /\ sum(b) > 0
    /\ c' = b
    /\ pc' = "f_return"
    /\ UNCHANGED <<a, b, graph, a_grad>>
    /\ UNCHANGED <<bpeVars, xVars, netVars>>

\* else: c = 100 * b
FElse ==
    /\ pc = "f_if"
    /\ ~(sum(b) > 0)
    /\ c' = ElseScale * b
    /\ graph' = Record(graph, ElseScale)
    /\ pc' = "f_return"
    /\ UNCHANGED <<a, b, a_grad>>
    /\ UNCHANGED <<bpeVars, xVars, netVars>>

\* return c; d = f(a); d.backward()
FBackward ==
    /\ pc = "f_return"
    /\ a_grad' = Product(graph)
    /\ pc' = "f_done"
    /\ UNCHANGED <<a, b, c, graph>>
    /\ UNCHANGED <<bpeVars, xVars, netVars>>

NextF == FEnter \/ FWhile \/ FDouble \/ FLoopExit \/ FThen \/ FElse \/ FBackward

\* the interpreter runs the cell as long as it has a next statement
SpecF == InitF /\ [][NextF]_vars /\ WF_vars(NextF)

----------------------------------------------------------------------------
(* autograd.ipynb: the gradient buffer of x *)

\* x = torch.arange(4.0)
XLen == 4
x == [k \in 1..XLen |-> k - 1]

\* the functions of x of the notebook whose backward pass is run:
\* y = 2 * torch.dot(x, x), y = x.sum(), y = x * x with gradient=ones or
\* summed, z = u * x with u = y.detach()
Functions == {"2 * dot(x, x)", "x.sum()", "x * x", "u * x"}

\* the gradient with respect to x that backward computes for a function
Gradient(fn) ==
    IF fn = "2 * dot(x, x)" THEN [k \in 1..XLen |-> 4 * x[k]]
    ELSE IF fn = "x.sum()" THEN [k \in 1..XLen |-> 1]
    ELSE IF fn = "x * x" THEN [k \in 1..XLen |-> 2 * x[k]]
    ELSE [k \in 1..XLen |-> x[k] * x[k]]

Zeros == [k \in 1..XLen |-> 0]

\* mutant: the new gradient replaces the stored one
Overwrite(stored, gradient) == gradient

\* the new gradient is added to the already stored gradient; a buffer that
\* is None takes the gradient
Accumulate(stored, gradient) ==
    IF stored = << >> THEN gradient
    ELSE [k \in 1..XLen |-> stored[k] + gradient[k]]

InitX ==
    /\ BpeIdle
    /\ FIdle
    /\ NetIdle
    /\ x_grad = << >>
    /\ y = "none"
    /\ passes = << >>
    /\ before = "creation"
    /\ pc = "cells"

\* y = a function of x: the graph of y is recorded
Forward ==
    /\ pc = "cells"
    /\ \E fn \in Functions : y' = fn
    /\ UNCHANGED <<x_grad, passes, before, pc>>
    /\ UNCHANGED <<bpeVars, fVars, netVars>>

\* y.backward(): the graph of y is used up
Backward ==
    /\ pc = "cells"
    /\ y # "none"
    /\ Len(passes) < MaxPasses
    /\ x_grad' = Accumulate(x_grad, Gradient(y))
    /\ passes' = Append(passes, Gradient(y))
    /\ before' = IF x_grad = << >> THEN "creation"
                 ELSE IF passes = << >> THEN "zero_" ELSE "backward"
    /\ y' = "none"
    /\ UNCHANGED pc
    /\ UNCHANGED <<bpeVars, fVars, netVars>>

\* x.grad.zero_(), an AttributeError while x.grad is None
ZeroGrad ==
    /\ pc = "cells"
    /\ x_grad # << >>
    /\ x_grad' = Zeros
    /\ passes' = << >>
    /\ UNCHANGED <<y, before, pc>>
    /\ UNCHANGED <<bpeVars, fVars, netVars>>

NextX == Forward \/ Backward \/ ZeroGrad

SpecX == InitX /\ [][NextX]_vars

----------------------------------------------------------------------------
(* part_001: tied parameters *)

\* the layer objects in the order of their creation: shared, then the
\* arguments of nn.Sequential that are created in place
shared == 1
Arguments == <<2, 3, shared, 4, shared, 5, 6>>

\* the objects that are linear layers and have a weight; the others are ReLU
Linear == {shared, 2, 6}

\* mutant: nn.Sequential keeps a copy of each argument
SequentialOfCopies(args) == [s \in 0..(Len(args) - 1) |-> 10 + s]

\* nn.Sequential(*args): site s of the network is the object given for it
Sequential(args) == [s \in 0..(Len(args) - 1) |-> args[s + 1]]

net == Sequential(Arguments)

\* the sites of the network whose layer has a weight, and their layers
WeightSites == {s \in DOMAIN net : Arguments[s + 1] \in Linear}
Parameters == {net[s] : s \in WeightSites}

\* values of weights after net(X), values written, and what a site adds to
\* the gradient of its weight in a backward pass
InitValues == {0, 1}
WriteValues == {100}
Contributions == {1, 2}

RECURSIVE SumOver(_, _)
SumOver(S, g) ==
    IF S = {} THEN 0
    ELSE LET s == CHOOSE s \in S : TRUE IN g[s] + SumOver(S \ {s}, g)

\* nn.Sequential(...); net(X)
InitNet ==
    /\ BpeIdle
    /\ FIdle
    /\ XIdle
    /\ weight \in [Parameters -> InitValues]
    /\ weight_grad = [o \in Parameters |-> 0]
    /\ contribs = << >>
    /\ pc = "net"

\* net[s].weight.data[0, 0] = v
WriteSite ==
    /\ pc = "net"
    /\ \E s \in WeightSites, v \in WriteValues :
          weight' = [weight EXCEPT ![net[s]] = v]
    /\ UNCHANGED <<weight_grad, contribs, pc>>
    /\ UNCHANGED <<bpeVars, fVars, xVars>>

\* a backward pass through net: the gradients of the sites of a layer are
\* added together, and to what the layer's gradient already holds
BackwardNet ==
    /\ pc = "net"
    /\ Len(contribs) < MaxBackward
    /\ \E g \in [WeightSites -> Contributions] :
          /\ weight_grad' =
                [o \in Parameters |->
                    weight_grad[o] + SumOver({s \in WeightSites : net[s] = o}, g)]
          /\ contribs' = Append(contribs, g)
    /\ UNCHANGED <<weight, pc>>
    /\ UNCHANGED <<bpeVars, fVars, xVars>>

NextNet == WriteSite \/ BackwardNet

SpecNet == InitNet /\ [][NextNet]_vars

----------------------------------------------------------------------------
(* Properties *)

Trained == pc \in {"train", "trained", "segmented", "crashed"}

NoDuplicates(lst) == \A j, k \in 1..Len(lst) : lst[j] = lst[k] => j = k

IsSubstring(s, w) ==
    \E k \in 1..(Len(w) - Len(s) + 1) : SubSeq(w, k, k + Len(s) - 1) = s

\* a string with its delimiters removed
Undelimited(s) == SelectSeq(s, LAMBDA ch : ch # SP)

\* the words whose characters are all lowercase letters or '_'
OverBaseAlphabet(w) == \A k \in 1..Len(w) : <<w[k]>> \in Range(BaseSymbols)

\* C1: after any number of merge steps on a table built from raw words, the
\* frequencies of the table add up to what they added up to before the
\* first merge.
C1_FrequencyConservation ==
    Trained => SumSeq(Values(token_freqs)) = SumSeq(Values(raw_token_freqs))

C1_Witness ==
    /\ pc = "train"
    /\ i >= 2
    /\ Len(token_freqs) >= 2
    /\ SumSeq(Values(token_freqs)) = SumSeq(Values(raw_token_freqs))

\* the vocabulary is the initial list followed by the merged symbol of every
\* merge step so far, in order: initial size + N symbols, none removed
VocabularyGrowsByAppend ==
    /\ Len(symbols) = Len(BaseSymbols) + i
    /\ SubSeq(symbols, 1, Len(BaseSymbols)) = BaseSymbols
    /\ \A k \in 1..i : symbols[Len(BaseSymbols) + k] = Merged(merges[k])

ExamplePairs ==
    << << <<"t">>, <<"a">> >>,
       << <<"t","a">>, <<"l">> >>,
       << <<"t","a","l">>, <<"l">> >>,
       << <<"f">>, <<"a">> >>,
       << <<"f","a">>, <<"s">> >>,
       << <<"f","a","s">>, <<"t">> >>,
       << <<"e">>, <<"r">> >>,
       << <<"e","r">>, <<"_">> >>,
       << <<"t","a","l","l">>, <<"_">> >>,
       << <<"f","a","s","t">>, <<"_">> >> >>

ExampleKeys ==
    << <<"f","a","s","t","_">>,
       <<"f","a","s","t"," ","e","r","_">>,
       <<"t","a","l","l","_">>,
       <<"t","a","l","l"," ","e","r","_">> >>

\* C3: 10 merge steps on the example table select (t,a), (ta,l), (tal,l),
\* (f,a), (fa,s), (fas,t), (e,r), (er,_), (tall,_), (fast,_) in this order
\* and leave the keys 'fast_', 'fast er_', 'tall_', 'tall er_'.
C3_ExampleRun ==
    (raw_token_freqs = ExampleCorpus /\ i = ExampleMerges)
        => (merges = ExamplePairs /\ Keys(token_freqs) = ExampleKeys)

C3_Witness ==
    /\ raw_token_freqs = ExampleCorpus
    /\ i = ExampleMerges
    /\ pc = "trained"
    /\ merges = ExamplePairs

ExampleOutputs ==
    << <<"t","a","l","l"," ","e"," ","s"," ","t"," ","_">>,
       <<"f","a"," ","t"," ","t"," ","e","r","_">> >>

\* C4: with the vocabulary of the 10-merge example run,
\* segment_BPE(['tallest_', 'fatter_']) is ['tall e s t _', 'fa t t er_'].
C4_ExampleSegmentation ==
    (/\ pc = "segmented"
     /\ raw_token_freqs = ExampleCorpus
     /\ i = ExampleMerges
     /\ tokens = ExampleTokens)
        => outputs = ExampleOutputs

C4_Witness ==
    /\ pc = "segmented"
    /\ raw_token_freqs = ExampleCorpus
    /\ i = ExampleMerges
    /\ tokens = ExampleTokens
    /\ Len(outputs) = 2

Reconstructs ==
    \A k \in 1..Len(tokens) : Undelimited(outputs[k]) = tokens[k]

\* C5 as stated: for every training corpus and number of merge steps, the
\* segmentation of each training word, delimiters removed, is the word.
C5_Original ==
    (pc = "segmented" /\ tokens = Keys(raw_token_freqs)) => Reconstructs

\* C5 amended: the same for every training corpus whose words consist of
\* characters that are symbols of the initial vocabulary.
C5_TrainingWordsReconstructed ==
    (/\ pc = "segmented"
     /\ tokens = Keys(raw_token_freqs)
     /\ \A k \in 1..Len(tokens) : OverBaseAlphabet(tokens[k]))
        => Reconstructs

C5_Witness ==
    /\ pc = "segmented"
    /\ tokens = Keys(raw_token_freqs)
    /\ Len(tokens) >= 2
    /\ i >= 2
    /\ \A k \in 1..Len(tokens) : OverBaseAlphabet(tokens[k])
    /\ \E k \in 1..Len(tokens) : Len(split(outputs[k])) >= 2
    /\ Reconstructs

IsPrefix(s, t) == Len(s) <= Len(t) /\ SubSeq(t, 1, Len(s)) = s

AdjacentIn(pair, key) ==
    \E k \in 1..(Len(split(key)) - 1) :
        split(key)[k] = pair[1] /\ split(key)[k + 1] = pair[2]

\* C7: every pair get_max_freq_pair counts is two symbols adjacent inside
\* one key, and every symbol a merge added to the vocabulary is a contiguous
\* substring of one training word.
C7_WithinWordBoundary ==
    Trained =>
        /\ LET pairs == PairCounts(token_freqs)
           IN \A k \in 1..Len(pairs) :
                 \E t \in 1..Len(token_freqs) : AdjacentIn(pairs[k][1], token_freqs[t][1])
        /\ \A k \in (Len(BaseSymbols) + 1)..Len(symbols) :
              \E t \in 1..Len(raw_token_freqs) :
                  IsSubstring(symbols[k], raw_token_freqs[t][1])

C7_Witness ==
    /\ pc = "train"
    /\ Len(raw_token_freqs) >= 2
    /\ i >= 2
    /\ Len(PairCounts(token_freqs)) >= 2

\* the frequency of key, once for each adjacent occurrence of pair in it
RECURSIVE OccurrencesFrom(_, _, _)
OccurrencesFrom(pair, syms, k) ==
    IF k >= Len(syms) THEN 0
    ELSE (IF syms[k] = pair[1] /\ syms[k + 1] = pair[2] THEN 1 ELSE 0)
         + OccurrencesFrom(pair, syms, k + 1)

Count(pair, tf) ==
    SumSeq([t \in 1..Len(tf) |-> tf[t][2] * OccurrencesFrom(pair, split(tf[t][1]), 1)])

AdjacentPairs(tf) ==
    UNION {{<<split(tf[t][1])[k], split(tf[t][1])[k + 1]>> :
               k \in 1..(Len(split(tf[t][1])) - 1)} : t \in 1..Len(tf)}

\* C8: on a table with at least one adjacent pair, get_max_freq_pair returns
\* a pair whose count is at least the count of every adjacent pair.
C8_MaxFrequencyPair ==
    (pc = "train" /\ AdjacentPairs(token_freqs) # {}) =>
        LET p == get_max_freq_pair(token_freqs)
            n == Count(p, token_freqs)
        IN /\ p \in AdjacentPairs(token_freqs)
           /\ \A q \in AdjacentPairs(token_freqs) : n >= Count(q, token_freqs)

C8_Witness ==
    /\ pc = "train"
    /\ i >= 1
    /\ \E q \in AdjacentPairs(token_freqs) :
          Count(get_max_freq_pair(token_freqs), token_freqs) > Count(q, token_freqs)
    /\ \E q \in AdjacentPairs(token_freqs) :
          /\ q # get_max_freq_pair(token_freqs)
          /\ Count(get_max_freq_pair(token_freqs), token_freqs) = Count(q, token_freqs)

\* a symbol sequence with every adjacent occurrence of pair, left to right,
\* replaced by the merged symbol
RECURSIVE SymbolMerge(_, _)
SymbolMerge(syms, pair) ==
    IF Len(syms) = 0 THEN << >>
    ELSE IF Len(syms) >= 2 /\ syms[1] = pair[1] /\ syms[2] = pair[2]
         THEN <<Merged(pair)>> \o SymbolMerge(SubSeq(syms, 3, Len(syms)), pair)
         ELSE <<syms[1]>> \o SymbolMerge(Tail(syms), pair)

\* C9: merge_symbols turns each key's symbol sequence into the same sequence
\* with every adjacent occurrence of a, b replaced by ab, leaves every other
\* symbol untouched and keeps each key's frequency.
C9_MergeExactPair ==
    (pc = "train" /\ ~RaisesValueError(token_freqs)) =>
        LET pair == get_max_freq_pair(token_freqs)
            new == merge_symbols(pair, token_freqs)
        IN /\ Len(new) = Len(token_freqs)
           /\ \A t \in 1..Len(token_freqs) :
                 /\ split(new[t][1]) = SymbolMerge(split(token_freqs[t][1]), pair)
                 /\ new[t][2] = token_freqs[t][2]

\* C10: each symbol segment_BPE emits at scan position start, the unknown
\* symbol apart, is the longest substring token[start:end] that is in the
\* vocabulary, and after emitting it the scan continues at that end with
\* the candidate end reset to the length of the token.
C10_LongestMatch ==
    [][(pc = "while" /\ pc' = "while" /\ Len(cur_output') > Len(cur_output)) =>
          /\ cur_output' = Append(cur_output, Slice(tokens[tok], start, start'))
          /\ start < start'
          /\ InList(Slice(tokens[tok], start, start'), symbols)
          /\ \A e \in (start' + 1)..Len(tokens[tok]) :
                ~InList(Slice(tokens[tok], start, e), symbols)
          /\ end' = Len(tokens[tok])]_vars

C10_Witness ==
    /\ pc = "while"
    /\ Len(tokens[tok]) = 3
    /\ cur_output = << <<"a", "a">> >>
    /\ start = 2
    /\ end = 3
    /\ InList(<<"a", "a">>, symbols)
    /\ tests = 2

\* the strings of a list put end to end
Concat(lst) == join(<< >>, lst)

\* at position p of token no prefix of what is left is in the vocabulary
NoPrefixKnown(token, p, syms) ==
    /\ p < Len(token)
    /\ \A e \in (p + 1)..Len(token) : ~InList(Slice(token, p, e), syms)

\* the number of elements of a list equal to x
Occurrences(item, lst) == Cardinality({k \in 1..Len(lst) : lst[k] = item})

\* C11: when the symbols matched so far end at a position where no prefix
\* of the rest of the token is in the vocabulary, the output of the token is
\* those symbols followed by the unknown symbol, appended once and last,
\* and the scan has not moved past that position.
C11_UnknownOnceAndLast ==
    (pc = "for" /\ tok >= 1) =>
        \A n \in 0..Len(cur_output) :
            LET matched == SubSeq(cur_output, 1, n)
                p == Len(Concat(matched))
            IN (/\ NoPrefixKnown(tokens[tok], p, symbols)
                /\ Concat(matched) = Slice(tokens[tok], 0, p)) =>
                   /\ cur_output = Append(matched, UNK)
                   /\ Len(cur_output) = n + 1
                   /\ outputs[tok] = join(<<SP>>, cur_output)
                   /\ start = p

C11_Witness ==
    /\ pc = "for"
    /\ tok >= 1
    /\ tokens[tok] = <<"a", "a", "1", "1">>
    /\ cur_output = << <<"a", "a">>, UNK >>
    /\ start = 2

\* C12: a token all of whose characters are single-character symbols of the
\* vocabulary, the empty token included, is segmented without the unknown
\* symbol into symbols that put end to end give the token; the output of
\* the empty token is the empty string.
C12_KnownCharactersNoUnknown ==
    (pc = "for" /\ tok >= 1
        /\ \A k \in 1..Len(tokens[tok]) : InList(<<tokens[tok][k]>>, symbols)) =>
            /\ Occurrences(UNK, cur_output) = 0
            /\ Concat(cur_output) = tokens[tok]
            /\ outputs[tok] = join(<<SP>>, cur_output)
            /\ Undelimited(outputs[tok]) = tokens[tok]
            /\ (tokens[tok] = << >> => outputs[tok] = << >>)

C12_Witness ==
    /\ pc = "for"
    /\ tok = 2
    /\ tokens = << << >>, <<"a", "a", "a">> >>
    /\ outputs = << << >>, <<"a", "a", " ", "a">> >>

\* C13: get_max_freq_pair ends in an error, returning no pair, exactly when
\* no key of the table has two or more symbols, the empty table included;
\* otherwise it returns a pair of symbols adjacent in some key.
C13_ErrorIffNoPair ==
    (pc \in {"train", "trained", "crashed"}) =>
        LET noPair == \A t \in 1..Len(token_freqs) : Len(split(token_freqs[t][1])) < 2
        IN /\ RaisesValueError(token_freqs) <=> noPair
           /\ ~noPair =>
                 LET pair == get_max_freq_pair(token_freqs)
                 IN \E t \in 1..Len(token_freqs) :
                        LET syms == split(token_freqs[t][1])
                        IN \E k \in 1..(Len(syms) - 1) : pair = <<syms[k], syms[k + 1]>>

C13_Witness ==
    /\ pc = "train"
    /\ i >= 1
    /\ Len(token_freqs) = 2
    /\ RaisesValueError(token_freqs)

\* C14: when the training loop asks for a merge step and no adjacent pair
\* of symbols is left in the table, the loop stops merging and ends normally
\* instead of crashing.
C14_LoopEndsNormally ==
    [][(pc = "train" /\ RaisesValueError(token_freqs) /\ pc' # pc) =>
          pc' = "trained"]_vars

\* C15: segment_BPE gives one output per input token, in the order of the
\* input, and the output of a token is what segmenting that token alone with
\* the same vocabulary gives, whatever the other tokens are and whether or
\* not one of them ended in the unknown symbol.
C15_TokensIndependent ==
    /\ pc = "for" => Len(outputs) = tok
    /\ pc = "while" => Len(outputs) = tok - 1
    /\ pc = "returned" => Len(outputs) = Len(tokens)
    /\ \A k \in 1..Len(outputs) :
          outputs[k] = segment_BPE(<<tokens[k]>>, symbols)[1]

C15_Witness ==
    /\ pc = "returned"
    /\ tokens = << <<"1", "a">>, <<"a", "a">> >>
    /\ outputs = << UNK, <<"a", " ", "a">> >>

\* the scan of get_max_freq_pair as the list of its additions, keys in table
\* order and pairs left to right: each item is a pair with the frequency added
RECURSIVE ScanEvents(_, _)
ScanEvents(tf, t) ==
    IF t > Len(tf) THEN << >>
    ELSE LET syms == split(tf[t][1])
         IN [k \in 1..(Len(syms) - 1) |-> << <<syms[k], syms[k + 1]>>, tf[t][2] >>]
            \o ScanEvents(tf, t + 1)

\* the value accumulated for pair by the first n additions of the scan
RECURSIVE ValueAfter(_, _, _)
ValueAfter(ev, pair, n) ==
    IF n = 0 THEN 0
    ELSE ValueAfter(ev, pair, n - 1) + (IF ev[n][1] = pair THEN ev[n][2] ELSE 0)

Least(S) == CHOOSE n \in S : \A m \in S : n <= m

\* the pairs with the maximum final value
TiedPairs(ev) ==
    LET all == {ev[n][1] : n \in 1..Len(ev)}
    IN {p \in all : \A q \in all : ValueAfter(ev, q, Len(ev)) <= ValueAfter(ev, p, Len(ev))}

\* the addition at which pair is inserted, and the one at which its value
\* becomes the maximum
InsertedAt(ev, pair) == Least({n \in 1..Len(ev) : ev[n][1] = pair})
ReachesMaxAt(ev, pair) ==
    Least({n \in 1..Len(ev) : ValueAfter(ev, pair, n) = ValueAfter(ev, pair, Len(ev))})

\* C19 as stated: of the pairs that tie for the maximum value the one
\* returned is the first whose value reached the maximum during the scan.
C19_Original ==
    (pc = "train" /\ ~RaisesValueError(token_freqs)) =>
        LET ev == ScanEvents(token_freqs, 1)
            pair == get_max_freq_pair(token_freqs)
        IN /\ pair \in TiedPairs(ev)
           /\ \A q \in TiedPairs(ev) : ReachesMaxAt(ev, pair) <= ReachesMaxAt(ev, q)

\* C19: of the pairs that tie for the maximum value the one returned comes
\* before every other one in the insertion order of the pair map, also
\* when another tied pair reached the maximum value earlier in the scan.
C19_FirstInsertedOfTied ==
    (pc = "train" /\ ~RaisesValueError(token_freqs)) =>
        LET pairs == PairCounts(token_freqs)
            pair == get_max_freq_pair(token_freqs)
            top == {k \in 1..Len(pairs) : \A j \in 1..Len(pairs) : pairs[j][2] <= pairs[k][2]}
        IN /\ \E k \in top : pairs[k][1] = pair
           /\ \A k \in top : pairs[k][1] # pair =>
                 \E j \in top : j < k /\ pairs[j][1] = pair

C19_Witness ==
    /\ pc = "train"
    /\ ~RaisesValueError(token_freqs)
    /\ LET ev == ScanEvents(token_freqs, 1)
           pair == get_max_freq_pair(token_freqs)
       IN \E q \in TiedPairs(ev) : ReachesMaxAt(ev, q) < ReachesMaxAt(ev, pair)

\* C20: of the pairs that tie for the maximum value the one returned is the
\* one whose first occurrence comes earliest in the scan, keys in table
\* order and pairs left to right, whenever each of them reached the maximum.
C20_EarliestFirstOccurrence ==
    (pc = "train" /\ ~RaisesValueError(token_freqs)) =>
        LET ev == ScanEvents(token_freqs, 1)
            pair == get_max_freq_pair(token_freqs)
        IN /\ pair \in TiedPairs(ev)
           /\ \A q \in TiedPairs(ev) : InsertedAt(ev, pair) <= InsertedAt(ev, q)

C20_Witness ==
    /\ pc = "train"
    /\ i = 0
    /\ raw_token_freqs = TieCorpus
    /\ Cardinality(TiedPairs(ScanEvents(token_freqs, 1))) = 2
    /\ get_max_freq_pair(token_freqs) = <<"a", "b">>

\* C16: for every input a the call f(a) returns, and what it returns is a
\* times the gradient that backward stores in a.grad: d / a == a.grad.
C16_TerminatesLinear ==
    /\ <>(pc = "f_done")
    /\ [](pc = "f_done" => c = a_grad * a)

\* the sum of a list of gradients
RECURSIVE SumOfGradients(_)
SumOfGradients(gs) ==
    IF Len(gs) = 0 THEN Zeros
    ELSE LET rest == SumOfGradients(SubSeq(gs, 1, Len(gs) - 1))
         IN [k \in 1..XLen |-> rest[k] + gs[Len(gs)][k]]

\* C17 as stated: x.grad is the sum of the gradients of the backward passes
\* since the last x.grad.zero_() or since creation, and it is the latest
\* gradient alone only when zero_() was called just before that pass.
C17_Original ==
    (pc = "cells" /\ x_grad # << >>) =>
        /\ x_grad = SumOfGradients(passes)
        /\ (passes # << >> /\ x_grad = passes[Len(passes)]) => before = "zero_"

\* C17: x.grad is the sum of the gradients of the backward passes since the
\* last x.grad.zero_() or since creation; it is the latest gradient alone
\* after a pass that zero_() or the creation of x came just before, and
\* after another pass only if the earlier gradients add up to zero.
C17_GradientAccumulates ==
    (pc = "cells" /\ x_grad # << >>) =>
        /\ x_grad = SumOfGradients(passes)
        /\ passes # << >> =>
              /\ before \in {"zero_", "creation"} => x_grad = passes[Len(passes)]
              /\ (before = "backward" /\ x_grad = passes[Len(passes)]) =>
                    SumOfGradients(SubSeq(passes, 1, Len(passes) - 1)) = Zeros

C17_Witness ==
    /\ pc = "cells"
    /\ passes = <<Gradient("2 * dot(x, x)"), Gradient("x.sum()")>>
    /\ before = "backward"
    /\ x_grad = <<1, 5, 9, 13>>

\* what the backward passes so far contributed at site s
RECURSIVE ContributedAt(_, _)
ContributedAt(cs, s) ==
    IF Len(cs) = 0 THEN 0 ELSE cs[1][s] + ContributedAt(Tail(cs), s)

\* C18: the sites net[2] and net[4] of the layer used twice are one object:
\* whatever is written through a site, the weights read through the two
\* sites are equal, and the gradient read through either site is the sum of
\* what the backward passes contributed at both sites.
C18_TiedParameters ==
    pc = "net" =>
        /\ net[2] = net[4]
        /\ weight[net[2]] = weight[net[4]]
        /\ weight_grad[net[2]] = weight_grad[net[4]]
        /\ weight_grad[net[2]] = ContributedAt(contribs, 2) + ContributedAt(contribs, 4)
        /\ weight_grad[net[0]] = ContributedAt(contribs, 0)
        /\ weight_grad[net[6]] = ContributedAt(contribs, 6)

C18_Witness ==
    /\ pc = "net"
    /\ weight[net[4]] = 100
    /\ weight[net[0]] = 0
    /\ Len(contribs) = 2
    /\ contribs[1][2] = 1
    /\ contribs[1][4] = 2
    /\ weight_grad[net[2]] = 6

\* C22 as stated: the value of a pair in the pair map is the sum of the
\* frequencies of the keys that contain the pair, each key counted once.
C22_Original ==
    pc = "train" =>
        LET pairs == PairCounts(token_freqs)
        IN \A k \in 1..Len(pairs) :
              pairs[k][2] =
                  SumSeq([t \in 1..Len(token_freqs) |->
                             IF AdjacentIn(pairs[k][1], token_freqs[t][1])
                             THEN token_freqs[t][2] ELSE 0])

\* C22: the pair map has one entry for each pair adjacent in some key, and
\* its value is the sum over the keys of the frequency of the key times the
\* number of places of the key at which the pair occurs.
C22_CountedPerOccurrence ==
    pc = "train" =>
        LET pairs == PairCounts(token_freqs)
        IN /\ Range(Keys(pairs)) = AdjacentPairs(token_freqs)
           /\ NoDuplicates(Keys(pairs))
           /\ \A k \in 1..Len(pairs) : pairs[k][2] = Count(pairs[k][1], token_freqs)

C22_Witness ==
    /\ pc = "train"
    /\ token_freqs = << << <<"a", " ", "b">>, 1 >>, << <<"a", " ", "a", " ", "a">>, 2 >> >>
    /\ PairCounts(token_freqs) = << << <<"a", "b">>, 1 >>, << <<"a", "a">>, 4 >> >>

\* C23: the initial table has, for each raw word and in the same order, one
\* key in which the characters of the word alternate with single
\* delimiters, with the frequency of the word; for words without a
\* delimiter the key without its delimiters is the word, and distinct words
\* have distinct keys.
C23_InitialKeys ==
    (pc = "train" /\ i = 0) =>
        /\ Len(token_freqs) = Len(raw_token_freqs)
        /\ \A t \in 1..Len(token_freqs) :
              LET word == raw_token_freqs[t][1]
                  key == token_freqs[t][1]
              IN /\ Len(key) = (IF Len(word) = 0 THEN 0 ELSE 2 * Len(word) - 1)
                 /\ \A j \in 1..Len(word) : key[2 * j - 1] = word[j]
                 /\ \A j \in 1..(Len(word) - 1) : key[2 * j] = SP
                 /\ token_freqs[t][2] = raw_token_freqs[t][2]
                 /\ (\A j \in 1..Len(word) : word[j] # SP) => Undelimited(key) = word
        /\ NoDuplicates(Keys(token_freqs))

C23_Witness ==
    /\ pc = "train"
    /\ i = 0
    /\ raw_token_freqs = << << <<"a", "b">>, 2 >>, << <<"a", "b", "a">>, 1 >> >>
    /\ token_freqs = << << <<"a", " ", "b">>, 2 >>, << <<"a", " ", "b", " ", "a">>, 1 >> >>

\* C24: each key of the initial table is the raw word with the end-of-word
\* marker '_' appended, split into characters, so that the last symbol of
\* every initial key is the marker whatever the raw word.
C24_MarkerAppended ==
    (pc = "train" /\ i = 0) =>
        \A t \in 1..Len(token_freqs) :
            LET syms == split(token_freqs[t][1])
            IN /\ token_freqs[t][1] = join(<<SP>>, list(raw_token_freqs[t][1] \o <<"_">>))
               /\ syms[Len(syms)] = <<"_">>

TrainedOverBaseAlphabet ==
    /\ Trained
    /\ \A t \in 1..Len(raw_token_freqs) : OverBaseAlphabet(raw_token_freqs[t][1])

\* C25: the symbol a merge step appends to the vocabulary is the
\* concatenation of the two symbols of the merged pair, and both are in the
\* vocabulary before the step; stated for training words over the base
\* alphabet, all of whose characters are symbols.
C25_MergedFromKnownSymbols ==
    [][(TrainedOverBaseAlphabet /\ pc = "train" /\ i' = i + 1) =>
          LET pair == merges'[Len(merges')]
          IN /\ InList(pair[1], symbols)
             /\ InList(pair[2], symbols)
             /\ symbols' = Append(symbols, pair[1] \o pair[2])]_vars

\* C26: after any number of merge steps on a table built from words over
\* the base alphabet, every symbol of every key is in the vocabulary.
C26_KeySymbolsInVocabulary ==
    TrainedOverBaseAlphabet =>
        \A t \in 1..Len(token_freqs) :
            LET syms == split(token_freqs[t][1])
            IN \A k \in 1..Len(syms) : InList(syms[k], symbols)

\* C27: after any number of merge steps the table has as many keys as there
\* are raw words, and the key at the place of a raw word is that word once
\* its delimiters are removed, with the frequency of the word; no two keys
\* are equal.
C27_KeysKeepTheirWords ==
    Trained =>
        /\ Len(token_freqs) = Len(raw_token_freqs)
        /\ \A t \in 1..Len(token_freqs) :
              /\ Undelimited(token_freqs[t][1]) = raw_token_freqs[t][1]
              /\ token_freqs[t][2] = raw_token_freqs[t][2]
        /\ NoDuplicates(Keys(token_freqs))

C27_Witness ==
    /\ pc = "train"
    /\ i = 1
    /\ Len(token_freqs) = 3
    /\ \E t \in 1..Len(token_freqs) : Len(split(token_freqs[t][1])) = 1
    /\ \E t \in 1..Len(token_freqs) : Len(split(token_freqs[t][1])) = 2

\* number of symbols over all keys of a table
TotalSymbols(tf) == SumSeq([t \in 1..Len(tf) |-> Len(split(tf[t][1]))])

\* sum over the raw words of (word length - 1)
MergeBudget(raw) == SumSeq([t \in 1..Len(raw) |-> Len(raw[t][1]) - 1])

\* C28: every merge step that succeeds lowers the number of symbols over all
\* keys by at least one; hence the number of steps taken never exceeds the
\* sum over the words of (word length - 1), and once that many steps were
\* taken every key is a single symbol and no adjacent pair is left.
C28_MergingLowersSymbolCount ==
    [][/\ (pc = "train" /\ i' = i + 1) =>
              TotalSymbols(token_freqs') <= TotalSymbols(token_freqs) - 1
       /\ Trained' =>
              /\ i' + TotalSymbols(token_freqs') <=
                     MergeBudget(raw_token_freqs') + Len(raw_token_freqs')
              /\ i' <= MergeBudget(raw_token_freqs')
              /\ i' = MergeBudget(raw_token_freqs') =>
                     /\ \A t \in 1..Len(token_freqs') :
                            Len(split(token_freqs'[t][1])) = 1
                     /\ RaisesValueError(token_freqs')]_vars

C28_Witness ==
    /\ pc = "train"
    /\ Len(token_freqs) = 2
    /\ MergeBudget(raw_token_freqs) = 3
    /\ i = 3
    /\ RaisesValueError(token_freqs)

\* C29: the scan loop of segment_BPE ends for every token and vocabulary:
\* an iteration either moves start forward or lowers end by one and leaves
\* start where it is, the loop is left exactly when start has reached the
\* length L of the token or end has fallen to start, and no more than
\* L*(L+1)/2 substring tests are made for one token.
C29_ScanLoopBounded ==
    [][LET L == Len(tokens[tok]) IN
       /\ (pc = "while" /\ tests' = tests + 1) =>
              /\ \/ start' > start
                 \/ start' = start /\ end' = end - 1
              /\ start' <= end' /\ end' <= L
              /\ tests' <= (L * (L + 1)) \div 2
       /\ (pc = "while" /\ pc' = "for") =>
              /\ start = L \/ end = start
              /\ tests <= (L * (L + 1)) \div 2]_vars

C29_Witness ==
    /\ pc = "for"
    /\ tok >= 1
    /\ Len(tokens[tok]) = 3
    /\ tests = 6
    /\ start = 3

----------------------------------------------------------------------------
(* The three functions called on their own, on any table *)

MaxKeys == 2
MaxKeyLen == 2

\* the keys that spell the word w: a space or nothing between two characters
RECURSIVE Segmentations(_)
Segmentations(w) ==
    IF Len(w) <= 1 THEN {w}
    ELSE LET rest == Segmentations(Tail(w))
         IN {<<w[1]>> \o r : r \in rest} \cup {<<w[1], SP>> \o r : r \in rest}

TableKeys ==
    UNION {Segmentations(w) :
              w \in UNION {[1..n -> Range(Alphabet)] : n \in 1..MaxKeyLen}}

\* what a call of get_max_freq_pair(token_freqs) leaves and returns
GetMaxFreqPairCall(tf, syms) ==
    [token_freqs |-> tf,
     symbols |-> syms,
     raised |-> RaisesValueError(tf),
     returned |-> IF RaisesValueError(tf) THEN << >> ELSE get_max_freq_pair(tf)]

\* mutant: the given table is updated in place
MergeSymbolsCallInPlace(max_freq_pair, tf, syms) ==
    [token_freqs |-> merge_symbols(max_freq_pair, tf),
     symbols |-> AppendSymbol(syms, max_freq_pair),
     returned |-> merge_symbols(max_freq_pair, tf)]

\* what a call of merge_symbols(max_freq_pair, token_freqs) leaves and returns
MergeSymbolsCall(max_freq_pair, tf, syms) ==
    [token_freqs |-> tf,
     symbols |-> AppendSymbol(syms, max_freq_pair),
     returned |-> merge_symbols(max_freq_pair, tf)]

\* what a call of segment_BPE(tokens, symbols) leaves and returns
SegmentCall(toks, syms) ==
    [tokens |-> toks,
     symbols |-> syms,
     returned |-> segment_BPE(toks, syms)]

InitCalls ==
    /\ raw_token_freqs = << >>
    /\ token_freqs = << >>
    /\ symbols = BaseSymbols
    /\ i = 0
    /\ merges = << >>
    /\ tokens = << >>
    /\ outputs = << >>
    /\ tok = 0
    /\ start = 0
    /\ end = 0
    /\ cur_output = << >>
    /\ tests = 0
    /\ run = 1
    /\ first = NoRun
    /\ pc = "call"
    /\ GradIdle
    /\ CallIdle

\* the caller builds the arguments: token_freqs[key] = freq for a new key,
\* with the smallest or the largest frequency, as long as the table has
\* fewer than MaxKeys keys and spells at most MaxChars characters in all;
\* the word that the key spells is added to the tokens to segment
AddItem ==
    /\ pc = "call"
    /\ called = ""
    /\ Len(token_freqs) < MaxKeys
    /\ \E key \in TableKeys, freq \in {1, MaxFreq} :
          /\ \A k \in 1..Len(token_freqs) : token_freqs[k][1] # key
          /\ SumSeq([k \in 1..Len(tokens) |-> Len(tokens[k])])
                 + Len(Undelimited(key)) <= MaxChars
          /\ token_freqs' = DictSet(token_freqs, key, freq)
          /\ tokens' = Append(tokens, Undelimited(key))
    /\ UNCHANGED <<raw_token_freqs, symbols, i, merges, run, first, pc>>
    /\ UNCHANGED <<outputs, tok, start, end, cur_output, tests>>
    /\ UNCHANGED callVars
    /\ UNCHANGED gradVars

\* get_max_freq_pair(token_freqs)
CallGetMaxFreqPair ==
    /\ pc = "call"
    /\ called = ""
    /\ LET after == GetMaxFreqPairCall(token_freqs, symbols) IN
          /\ token_freqs' = after.token_freqs
          /\ symbols' = after.symbols
          /\ raised' = after.raised
          /\ got_pair' = after.returned
    /\ called' = "get_max_freq_pair"
    /\ UNCHANGED <<raw_token_freqs, i, merges, run, first, pc, arg_pair, new_table>>
    /\ UNCHANGED scanVars
    /\ UNCHANGED gradVars

\* merge_symbols(max_freq_pair, token_freqs) for a pair that is adjacent in
\* some key (any other pair leaves every key as it is)
CallMergeSymbols ==
    /\ pc = "call"
    /\ called = ""
    /\ \E p \in Range(Keys(PairCounts(token_freqs))) :
          LET after == MergeSymbolsCall(p, token_freqs, symbols) IN
             /\ arg_pair' = p
             /\ token_freqs' = after.token_freqs
             /\ symbols' = after.symbols
             /\ new_table' = after.returned
    /\ called' = "merge_symbols"
    /\ UNCHANGED <<raw_token_freqs, i, merges, run, first, pc, got_pair, raised>>
    /\ UNCHANGED scanVars
    /\ UNCHANGED gradVars

\* segment_BPE(tokens, symbols)
CallSegmentBPE ==
    /\ pc = "call"
    /\ called = ""
    /\ LET after == SegmentCall(tokens, symbols) IN
          /\ tokens' = after.tokens
          /\ symbols' = after.symbols
          /\ outputs' = after.returned
    /\ called' = "segment_BPE"
    /\ UNCHANGED <<raw_token_freqs, token_freqs, i, merges, run, first, pc>>
    /\ UNCHANGED <<tok, start, end, cur_output, tests>>
    /\ UNCHANGED <<arg_pair, got_pair, raised, new_table>>
    /\ UNCHANGED gradVars

NextCalls == AddItem \/ CallGetMaxFreqPair \/ CallMergeSymbols \/ CallSegmentBPE

SpecCalls == InitCalls /\ [][NextCalls]_vars

\* the value of key in the dict d, 0 if it is not a key
ValueOf(d, key) ==
    IF \E k \in 1..Len(d) : d[k][1] = key
    THEN d[CHOOSE k \in 1..Len(d) : d[k][1] = key][2]
    ELSE 0

\* C21: in the table that merge_symbols returns every key occurs once, and
\* its frequency is the sum of the frequencies of the keys of the given
\* table that become this key by the merge (so the frequencies of keys that
\* collide are added up).
C21_CollidingKeysSummed ==
    called = "merge_symbols" =>
        /\ NoDuplicates(Keys(new_table))
        /\ \A t \in 1..Len(token_freqs) :
              LET new_token == NewToken(token_freqs[t][1], arg_pair)
              IN ValueOf(new_table, new_token) =
                     SumSeq([u \in 1..Len(token_freqs) |->
                                IF NewToken(token_freqs[u][1], arg_pair) = new_token
                                THEN token_freqs[u][2] ELSE 0])

\* C30: a call of get_max_freq_pair, returning or raising, leaves the table
\* and the vocabulary as they were; a call of merge_symbols leaves the table
\* it is given as it was and makes the vocabulary one symbol longer, the
\* symbols it had staying at their places; a call of segment_BPE leaves the
\* tokens and the vocabulary as they were.
C30_CallsFrame ==
    [][(called = "" /\ called' # "") =>
          /\ called' = "get_max_freq_pair" =>
                token_freqs' = token_freqs /\ symbols' = symbols
          /\ called' = "merge_symbols" =>
                /\ token_freqs' = token_freqs
                /\ Len(symbols') = Len(symbols) + 1
                /\ SubSeq(symbols', 1, Len(symbols)) = symbols
          /\ called' = "segment_BPE" =>
                tokens' = tokens /\ symbols' = symbols]_vars

C30_Witness ==
    /\ called = "merge_symbols"
    /\ arg_pair = <<"a", "b">>
    /\ new_table # token_freqs
    /\ symbols = Append(BaseSymbols, <<"a", "b">>)

====
